---- MODULE Spec2Model ----
(***************************************************************************)
(* Model of the Firah journal store (src/app.py): the six SQLite tables,   *)
(* the operations of FirahUser, ConsciousCircle and FirahPractice on them, *)
(* and the interactive menu loop simple_cli.                               *)
(*                                                                         *)
(* Numbers.  consciousness_level is a REAL; the model keeps it as an exact *)
(* integer number of 1/10000 units (1.0 is 10000, 1.225 is 12250).         *)
(* target_level is kept in tenths (1.5 is 15).  Durations are minutes.     *)
(* Text columns that no operation reads back (titles, notes, descriptions, *)
(* timestamps, fitra_type, journey_data) are left out of the rows.         *)
(***************************************************************************)
EXTENDS Integers, Sequences, FiniteSets, Bags

VARIABLES
    users,       \* table users: row i has id i (AUTOINCREMENT, never deleted)
    circles,     \* table circles: row i has id i
    members,     \* table circle_members: bag of rows (a row may repeat)
    practices,   \* table practices: row i has id i
    logs,        \* table practice_logs, in id order
    insights,    \* table insights, in id order
    last,        \* the last call: its name, arguments and outcome
    okInsights,  \* history: successful add_insight calls per user id
    okLogs,      \* history: successful log_practice calls per user id
    cliUser,     \* simple_cli: the local variable `user`
    cliPc        \* simple_cli: "prompt", "exited" or "crashed"

store == <<users, circles, members, practices, logs, insights>>
hist  == <<okInsights, okLogs>>
cli   == <<cliUser, cliPc>>
vars  == <<users, circles, members, practices, logs, insights, last,
           okInsights, okLogs, cliUser, cliPc>>

----------------------------------------------------------------------------
(* Bounds of the model *)
MaxUsers == 2
MaxCircles == 1
MaxPractices == 1
MaxLogs == 2
MaxInsights == 2

(* Program constants *)
NoneId == 0           \* Python None / SQL NULL in an id position
InitialLevel == 10000 \* consciousness_level 1.0 at registration

(* Inputs *)
Usernames == {"a", "b", "c"}
Emails == {"x", "y"}
Registrations == {<<"a", "x">>, <<"b", "y">>}
Roles == {"creator", "member"}   \* "creator" is the role create_circle gives
\* ids passed by callers; an id names no row until that row is inserted
\* (no foreign key is enforced: the connection never sets PRAGMA foreign_keys)
UserIdArgs == {1, 2}
CircleIdArgs == {1, 2}
PracticeIdArgs == {1, 2}
AllUserIds == {NoneId} \cup UserIdArgs
TargetDurations == {0, 10}
TargetLevels == {10, 15}
ActualDurations == {5, 15, 30}
NewLevels == {12250}
Intentions == {"peace"}

Ret(op, args, ok, val, err) ==
    [op |-> op, args |-> args, ok |-> ok, val |-> val, err |-> err]

----------------------------------------------------------------------------
(* Queries *)

UserExists(u) == u \in DOMAIN users
CircleExists(c) == c \in DOMAIN circles
PracticeExists(p) == p \in DOMAIN practices

\* faulty variant of UniqueViolation: the schema without UNIQUE on email
UniqueViolationNameOnly(username, email) ==
    \E i \in DOMAIN users : users[i].username = username

\* UNIQUE(username), UNIQUE(email): would the INSERT raise IntegrityError
UniqueViolation(username, email) ==
    \E i \in DOMAIN users :
        users[i].username = username \/ users[i].email = email

\* SELECT id FROM users WHERE username = ?
FindUser(username) ==
    IF \E i \in DOMAIN users : users[i].username = username
    THEN CHOOSE i \in DOMAIN users : users[i].username = username
    ELSE NoneId

\* rows of circle_members WHERE circle_id = c  (NULL matches no row)
MemberRows(ms, c) ==
    [m \in {x \in DOMAIN ms : x.circle_id = c /\ c # NoneId} |-> ms[m]]

\* SELECT COUNT(*) FROM circle_members WHERE circle_id = ?
MemberCount(ms, c) == BagCardinality(MemberRows(ms, c))

\* faulty variant of InsertOrReplaceMember: a plain INSERT without the key
PlainInsertMember(ms, c, u, role) ==
    ms (+) SetToBag({[circle_id |-> c, user_id |-> u, role |-> role]})

\* INSERT OR REPLACE INTO circle_members: PRIMARY KEY (circle_id, user_id);
\* the rows of the same key are deleted, then the row is inserted.  A NULL
\* circle_id or user_id conflicts with no row, so such a row is added next
\* to its copies
InsertOrReplaceMember(ms, c, u, role) ==
    [m \in {x \in DOMAIN ms :
                ~(/\ x.circle_id = c
                  /\ x.user_id = u
                  /\ c # NoneId
                  /\ u # NoneId)} |-> ms[m]]
        (+) SetToBag({[circle_id |-> c, user_id |-> u, role |-> role]})

\* circle_members JOIN users ON user_id = id WHERE circle_id = c
JoinedRows(ms, c) ==
    [m \in {x \in DOMAIN ms :
                x.circle_id = c /\ c # NoneId /\ UserExists(x.user_id)} |-> ms[m]]

RECURSIVE SumLevels(_)
SumLevels(rows) ==
    IF DOMAIN rows = {} THEN 0
    ELSE LET m == CHOOSE x \in DOMAIN rows : TRUE
         IN users[m.user_id].consciousness_level * rows[m]
                + SumLevels([x \in DOMAIN rows \ {m} |-> rows[x]])

\* round(num/den, 2) in hundredths, num in 1/10000 units, den > 0
\* (\div rounds down and % is never negative, also for num < 0).
\* On an exact decimal tie the binary double decides (round(1.225, 2) is
\* 1.23, round(1.075, 2) is 1.07): both neighbours are possible.
Round2(num, den) ==
    LET q == num \div (100 * den)
        r == num % (100 * den)
    IN IF 2 * r < 100 * den THEN {q}
       ELSE IF 2 * r > 100 * den THEN {q + 1}
       ELSE {q, q + 1}

\* SELECT AVG(u.consciousness_level) ... `or 0`, then round(.., 2)
AvgConsciousness(ms, c) ==
    LET rows == JoinedRows(ms, c)
    IN IF DOMAIN rows = {} THEN {0}
       ELSE Round2(SumLevels(rows), BagCardinality(rows))

\* faulty variant of InsightsCount: the WHERE clause left out
InsightsCountAll(u) == Len(insights)

\* SELECT COUNT(*) FROM insights WHERE user_id = ?  (NULL matches no row)

InsightsCount(u) ==
    Cardinality({i \in DOMAIN insights : insights[i].user_id = u /\ u # NoneId})

\* SELECT COUNT(*) FROM practice_logs WHERE user_id = ?
PracticesCount(u) ==
    Cardinality({i \in DOMAIN logs : logs[i].user_id = u /\ u # NoneId})

\* faulty variant of PracticeEffect: the min(.., 1.5) left out
PracticeEffectUncapped(target_level, duration_actual, target_duration) ==
    (target_level * 100 * duration_actual) \div target_duration

\* target_level * min(duration_actual / target_duration, 1.5) * 0.1, in
\* 1/10000 units; target_level in tenths, target_duration # 0 dividing
\* 100 * duration_actual.  The ratio is below 1.5 when 2 * actual < 3 * target
\* for a positive target and when 2 * actual > 3 * target for a negative one
\* (add_practice stores either sign unchecked).
PracticeEffect(target_level, duration_actual, target_duration) ==
    IF \/ target_duration > 0 /\ 2 * duration_actual < 3 * target_duration
       \/ target_duration < 0 /\ 2 * duration_actual > 3 * target_duration
    THEN (target_level * 100 * duration_actual) \div target_duration
    ELSE target_level * 150

\* UPDATE users SET consciousness_level = ? WHERE id = ?
SetLevel(us, u, level) ==
    IF u \in DOMAIN us THEN [us EXCEPT ![u].consciousness_level = level] ELSE us

----------------------------------------------------------------------------
(* State after FirahDatabase.__init__ on a new file: six empty tables;     *)
(* simple_cli has not yet assigned its local `user`.                      *)

Init ==
    /\ users = <<>>
    /\ circles = <<>>
    /\ members = EmptyBag
    /\ practices = <<>>
    /\ logs = <<>>
    /\ insights = <<>>
    /\ last = Ret("init", <<>>, TRUE, <<>>, "")
    /\ okInsights = [u \in AllUserIds |-> 0]
    /\ okLogs = [u \in AllUserIds |-> 0]
    /\ cliUser = [bound |-> FALSE, user_id |-> NoneId]
    /\ cliPc = "prompt"

----------------------------------------------------------------------------
(* FirahUser *)

UserRow(username, email) ==
    [username |-> username, email |-> email, consciousness_level |-> InitialLevel]

\* FirahUser.register: the new id (cursor.lastrowid), or NoneId on IntegrityError
RegisterResult(username, email) ==
    IF UniqueViolation(username, email) THEN NoneId ELSE Len(users) + 1

UsersAfterRegister(username, email) ==
    IF UniqueViolation(username, email) THEN users
    ELSE Append(users, UserRow(username, email))

register(username, email) ==
    /\ UniqueViolation(username, email) \/ Len(users) < MaxUsers
    /\ users' = UsersAfterRegister(username, email)
    /\ last' = Ret("register", <<username, email>>,
                   RegisterResult(username, email) # NoneId,
                   <<RegisterResult(username, email)>>,
                   IF UniqueViolation(username, email) THEN "IntegrityError" ELSE "")
    /\ UNCHANGED <<circles, members, practices, logs, insights, hist, cli>>

authenticate(username) ==
    /\ last' = Ret("authenticate", <<username>>, FindUser(username) # NoneId,
                   <<FindUser(username)>>, "")
    /\ UNCHANGED <<store, hist, cli>>

update_consciousness(user_id, new_level) ==
    /\ IF user_id = NoneId
       THEN /\ users' = users
            /\ last' = Ret("update_consciousness", <<user_id, new_level>>, FALSE,
                           <<>>, "NotLoggedIn")
       ELSE /\ users' = SetLevel(users, user_id, new_level)
            /\ last' = Ret("update_consciousness", <<user_id, new_level>>, TRUE,
                           <<>>, "")
    /\ UNCHANGED <<circles, members, practices, logs, insights, hist, cli>>

add_insight(user_id) ==
    /\ Len(insights) < MaxInsights
    /\ insights' = Append(insights, [user_id |-> user_id])
    /\ okInsights' = [okInsights EXCEPT ![user_id] = @ + 1]
    /\ last' = Ret("add_insight", <<user_id>>, TRUE, <<>>, "")
    /\ UNCHANGED <<users, circles, members, practices, logs, okLogs, cli>>

\* fetchone()[0] on the level query raises TypeError when no user row matches
get_journey_summary(user_id) ==
    /\ last' = IF UserExists(user_id)
               THEN Ret("get_journey_summary", <<user_id>>, TRUE,
                        <<users[user_id].consciousness_level,
                          InsightsCount(user_id), PracticesCount(user_id)>>, "")
               ELSE Ret("get_journey_summary", <<user_id>>, FALSE, <<>>, "TypeError")
    /\ UNCHANGED <<store, hist, cli>>

----------------------------------------------------------------------------
(* ConsciousCircle *)

\* faulty variant of MembersAfterCreate: the creator is not added
MembersAfterCreateNoAdmin(admin_user_id) == members

\* self.add_member(circle_id, admin_user_id, "creator") on the new circle id

MembersAfterCreate(admin_user_id) ==
    InsertOrReplaceMember(members, Len(circles) + 1, admin_user_id, "creator")

create_circle(admin_user_id) ==
    /\ Len(circles) < MaxCircles
    /\ circles' = Append(circles, [admin_user_id |-> admin_user_id,
                                   collective_intention |-> "NULL"])
    /\ members' = MembersAfterCreate(admin_user_id)
    /\ last' = Ret("create_circle", <<admin_user_id>>, TRUE, <<Len(circles) + 1>>, "")
    /\ UNCHANGED <<users, practices, logs, insights, hist, cli>>

add_member(circle_id, user_id, role) ==
    /\ members' = InsertOrReplaceMember(members, circle_id, user_id, role)
    /\ last' = Ret("add_member", <<circle_id, user_id, role>>, TRUE, <<>>, "")
    /\ UNCHANGED <<users, circles, practices, logs, insights, hist, cli>>

set_collective_intention(circle_id, intention) ==
    /\ circles' = IF CircleExists(circle_id)
                  THEN [circles EXCEPT ![circle_id].collective_intention = intention]
                  ELSE circles
    /\ last' = Ret("set_collective_intention", <<circle_id, intention>>, TRUE, <<>>, "")
    /\ UNCHANGED <<users, members, practices, logs, insights, hist, cli>>

\* returns {} for a missing circle, else member count and rounded average
get_circle_info(circle_id) ==
    /\ IF ~CircleExists(circle_id)
       THEN last' = Ret("get_circle_info", <<circle_id>>, FALSE, <<>>, "empty")
       ELSE \E avg \in AvgConsciousness(members, circle_id) :
                last' = Ret("get_circle_info", <<circle_id>>, TRUE,
                            <<MemberCount(members, circle_id), avg>>, "")
    /\ UNCHANGED <<store, hist, cli>>

----------------------------------------------------------------------------
(* FirahPractice *)

add_practice(duration_minutes, target_level) ==
    /\ Len(practices) < MaxPractices
    /\ practices' = Append(practices, [target_level |-> target_level,
                                       duration_minutes |-> duration_minutes])
    /\ last' = Ret("add_practice", <<duration_minutes, target_level>>, TRUE,
                   <<>>, "")
    /\ UNCHANGED <<users, circles, members, logs, insights, hist, cli>>

\* consciousness_before is the caller's argument (default 1.0), not read from
\* the store; callers pass the default or the level they last saw
LevelBefores(user_id) ==
    {InitialLevel} \cup
        (IF UserExists(user_id) THEN {users[user_id].consciousness_level} ELSE {})

\* faulty variant of LogOutcome: a missing practice is logged with no effect
LogOutcomeNoLookupCheck(practice_id, duration_actual, consciousness_before) ==
    IF ~PracticeExists(practice_id)
    THEN [err |-> "", after |-> consciousness_before]
    ELSE IF practices[practice_id].duration_minutes = 0
    THEN [err |-> "ZeroDivisionError", after |-> consciousness_before]
    ELSE [err |-> "",
          after |-> consciousness_before +
                    PracticeEffect(practices[practice_id].target_level,
                                   duration_actual,
                                   practices[practice_id].duration_minutes)]

\* the lookup, the division and the formula of log_practice: err is
\* "NotFound" (prints, returns None), "ZeroDivisionError" (raised), or ""
LogOutcome(practice_id, duration_actual, consciousness_before) ==
    IF ~PracticeExists(practice_id)
    THEN [err |-> "NotFound", after |-> consciousness_before]
    ELSE IF practices[practice_id].duration_minutes = 0
    THEN [err |-> "ZeroDivisionError", after |-> consciousness_before]
    ELSE [err |-> "",
          after |-> consciousness_before +
                    PracticeEffect(practices[practice_id].target_level,
                                   duration_actual,
                                   practices[practice_id].duration_minutes)]

log_practice(user_id, practice_id, duration_actual, consciousness_before) ==
    LET args == <<user_id, practice_id, duration_actual, consciousness_before>>
        out == LogOutcome(practice_id, duration_actual, consciousness_before)
    IN
    /\ IF out.err # ""
       THEN /\ last' = Ret("log_practice", args, FALSE, <<>>, out.err)
            /\ UNCHANGED <<users, logs, okLogs>>
       ELSE /\ Len(logs) < MaxLogs
            /\ logs' = Append(logs, [user_id |-> user_id,
                                     practice_id |-> practice_id,
                                     duration_actual |-> duration_actual,
                                     consciousness_before |-> consciousness_before,
                                     consciousness_after |-> out.after])
            /\ users' = SetLevel(users, user_id, out.after)
            /\ okLogs' = [okLogs EXCEPT ![user_id] = @ + 1]
            /\ last' = Ret("log_practice", args, TRUE, <<out.after>>, "")
    /\ UNCHANGED <<circles, members, practices, insights, okInsights, cli>>

----------------------------------------------------------------------------
(* simple_cli: one action per menu choice.  `user` is assigned only by     *)
(* choices 1 and 2; reading it before that raises UnboundLocalError, and   *)
(* hasattr(user, 'user_id') is true of every FirahUser object.            *)

Cli(choice, ok, err) == Ret(choice, <<>>, ok, <<>>, err)

\* hasattr(user, 'user_id'): FirahUser.__init__ always sets the attribute
HasUserId(user) == user.bound

cli_register(username, email) ==
    /\ cliPc = "prompt"
    /\ UniqueViolation(username, email) \/ Len(users) < MaxUsers
    /\ users' = UsersAfterRegister(username, email)
    /\ cliUser' = [bound |-> TRUE, user_id |-> RegisterResult(username, email)]
    /\ last' = Cli("cli1", RegisterResult(username, email) # NoneId,
                   IF UniqueViolation(username, email) THEN "IntegrityError" ELSE "")
    /\ UNCHANGED <<circles, members, practices, logs, insights, hist, cliPc>>

cli_authenticate(username) ==
    /\ cliPc = "prompt"
    /\ cliUser' = [bound |-> TRUE, user_id |-> FindUser(username)]
    /\ last' = Cli("cli2", FindUser(username) # NoneId,
                   IF FindUser(username) = NoneId THEN "UserNotFound" ELSE "")
    /\ UNCHANGED <<store, hist, cliPc>>

cli_create_circle ==
    /\ cliPc = "prompt"
    /\ IF ~cliUser.bound
       THEN /\ cliPc' = "crashed"
            /\ last' = Cli("cli3", FALSE, "UnboundLocalError")
            /\ UNCHANGED <<circles, members>>
       ELSE IF ~HasUserId(cliUser)
       THEN /\ cliPc' = cliPc
            /\ last' = Cli("cli3", FALSE, "NotAuthenticated")
            /\ UNCHANGED <<circles, members>>
       ELSE /\ Len(circles) < MaxCircles
            /\ circles' = Append(circles, [admin_user_id |-> cliUser.user_id,
                                           collective_intention |-> "NULL"])
            /\ members' = MembersAfterCreate(cliUser.user_id)
            /\ last' = Cli("cli3", TRUE, "")
            /\ cliPc' = cliPc
    /\ UNCHANGED <<users, practices, logs, insights, hist, cliUser>>

cli_add_insight ==
    /\ cliPc = "prompt"
    /\ IF ~cliUser.bound
       THEN /\ cliPc' = "crashed"
            /\ last' = Cli("cli4", FALSE, "UnboundLocalError")
            /\ UNCHANGED <<insights, okInsights>>
       ELSE IF ~HasUserId(cliUser)
       THEN /\ cliPc' = cliPc
            /\ last' = Cli("cli4", FALSE, "NotAuthenticated")
            /\ UNCHANGED <<insights, okInsights>>
       ELSE /\ Len(insights) < MaxInsights
            /\ insights' = Append(insights, [user_id |-> cliUser.user_id])
            /\ okInsights' = [okInsights EXCEPT ![cliUser.user_id] = @ + 1]
            /\ last' = Cli("cli4", TRUE, "")
            /\ cliPc' = cliPc
    /\ UNCHANGED <<users, circles, members, practices, logs, okLogs, cliUser>>

cli_show_report ==
    /\ cliPc = "prompt"
    /\ IF ~cliUser.bound
       THEN /\ cliPc' = "crashed"
            /\ last' = Cli("cli5", FALSE, "UnboundLocalError")
       ELSE IF ~HasUserId(cliUser)
       THEN /\ cliPc' = cliPc
            /\ last' = Cli("cli5", FALSE, "NotAuthenticated")
       ELSE IF ~UserExists(cliUser.user_id)
       THEN /\ cliPc' = "crashed"
            /\ last' = Cli("cli5", FALSE, "TypeError")
       ELSE /\ cliPc' = cliPc
            /\ last' = Ret("cli5", <<>>, TRUE,
                           <<users[cliUser.user_id].consciousness_level,
                             InsightsCount(cliUser.user_id),
                             PracticesCount(cliUser.user_id)>>, "")
    /\ UNCHANGED <<store, hist, cliUser>>

cli_exit ==
    /\ cliPc = "prompt"
    /\ cliPc' = "exited"
    /\ last' = Cli("cli0", TRUE, "")
    /\ UNCHANGED <<store, hist, cliUser>>

----------------------------------------------------------------------------
(* Specifications.  The store is explored one side at a time: each        *)
(* specification below runs the operations of one class together with the  *)
(* operations that write the rows it reads.  Next is all of them.          *)

\* FirahUser alone: every way to register, look up and read a user
NextUser ==
    \/ \E n \in Usernames, e \in Emails : register(n, e)
    \/ \E n \in Usernames : authenticate(n)
    \/ \E u \in AllUserIds, l \in NewLevels : update_consciousness(u, l)
    \/ \E u \in AllUserIds : add_insight(u)
    \/ \E u \in AllUserIds : get_journey_summary(u)

SpecUser == Init /\ [][NextUser]_vars

\* FirahPractice over registered and unregistered user ids
NextPractice ==
    \/ \E r \in Registrations : register(r[1], r[2])
    \/ \E d \in TargetDurations, t \in TargetLevels : add_practice(d, t)
    \/ \E u \in UserIdArgs, p \in PracticeIdArgs, d \in ActualDurations :
           \E b \in LevelBefores(u) : log_practice(u, p, d, b)

SpecPractice == Init /\ [][NextPractice]_vars

\* what get_journey_summary counts: insights and practice logs, next to
\* writes of other users and of circles
NextJourney ==
    \/ \E r \in Registrations : register(r[1], r[2])
    \/ \E u \in AllUserIds : add_insight(u)
    \/ \E u \in AllUserIds : get_journey_summary(u)
    \/ create_circle(1)
    \/ \E d \in TargetDurations : add_practice(d, 15)
    \/ \E u \in UserIdArgs, p \in PracticeIdArgs :
           log_practice(u, p, 15, InitialLevel)

SpecJourney == Init /\ [][NextJourney]_vars

\* ConsciousCircle over users whose levels change
NextCircle ==
    \/ \E r \in Registrations : register(r[1], r[2])
    \/ \E u \in UserIdArgs, l \in NewLevels : update_consciousness(u, l)
    \/ \E u \in AllUserIds : create_circle(u)
    \/ \E c \in CircleIdArgs, u \in UserIdArgs, r \in Roles : add_member(c, u, r)
    \/ \E c \in CircleIdArgs, t \in Intentions : set_collective_intention(c, t)
    \/ \E c \in CircleIdArgs : get_circle_info(c)

SpecCircle == Init /\ [][NextCircle]_vars

NextCli ==
    \/ \E n \in Usernames, e \in Emails : cli_register(n, e)
    \/ \E n \in Usernames : cli_authenticate(n)
    \/ cli_create_circle
    \/ cli_add_insight
    \/ cli_show_report
    \/ cli_exit

SpecCli == Init /\ [][NextCli]_vars

Next == NextUser \/ NextPractice \/ NextJourney \/ NextCircle \/ NextCli

Spec == Init /\ [][Next]_vars

----------------------------------------------------------------------------
(* Properties *)

MinOf(x, y) == IF x < y THEN x ELSE y
RowsOf(ms, c, u) ==
    [m \in {x \in DOMAIN ms : x.circle_id = c /\ x.user_id = u} |-> ms[m]]
RowsIn(ms, c) == [m \in {x \in DOMAIN ms : x.circle_id = c} |-> ms[m]]

\* C1 (SpecUser): no two users share a username or an email, and a register
\* call whose username or email is already stored returns failure
\* (IntegrityError) and leaves every table as it was.
C1_NoDuplicates ==
    \A i, j \in DOMAIN users :
        i # j => /\ users[i].username # users[j].username
                 /\ users[i].email # users[j].email

C1_DupStep ==
    (/\ last'.op = "register"
     /\ \E i \in DOMAIN users :
            users[i].username = last'.args[1] \/ users[i].email = last'.args[2])
    => /\ last'.ok = FALSE
       /\ last'.err = "IntegrityError"
       /\ store' = store

C1_Theorem == []C1_NoDuplicates /\ [][C1_DupStep]_vars

\* a register call was refused on the email alone, with two users stored
C1_Witness ==
    /\ last.op = "register"
    /\ last.ok = FALSE
    /\ Len(users) = 2
    /\ \A i \in DOMAIN users : users[i].username # last.args[1]
    /\ \E i \in DOMAIN users : users[i].email = last.args[2]

\* C2 (SpecCircle): there is at most one membership row per (circle, user);
\* after add_member(c, u, r) the one row of (c, u) has role r; and
\* add_member for a pair that already has a row leaves the circle's member
\* count as it was.
C2_OneRowPerPair ==
    \A m \in DOMAIN members :
        BagCardinality(RowsOf(members, m.circle_id, m.user_id)) = 1

C2_RoleIsLast ==
    last.op = "add_member" =>
        /\ DOMAIN RowsOf(members, last.args[1], last.args[2]) =
               {[circle_id |-> last.args[1], user_id |-> last.args[2],
                 role |-> last.args[3]]}
        /\ BagCardinality(RowsOf(members, last.args[1], last.args[2])) = 1

C2_ReAddStep ==
    (/\ last'.op = "add_member"
     /\ DOMAIN RowsOf(members, last'.args[1], last'.args[2]) # {})
    => BagCardinality(RowsIn(members', last'.args[1])) =
       BagCardinality(RowsIn(members, last'.args[1]))

C2_Theorem == [](C2_OneRowPerPair /\ C2_RoleIsLast) /\ [][C2_ReAddStep]_vars

\* the creator of an existing circle was re-added as plain member
C2_Witness ==
    /\ last.op = "add_member"
    /\ last.args[3] = "member"
    /\ last.args[1] \in DOMAIN circles
    /\ circles[last.args[1]].admin_user_id = last.args[2]
    /\ BagCardinality(RowsIn(members, last.args[1])) = 1

\* C3 (SpecCircle): every stored circle has at least one membership row, one
\* of them for its admin_user_id, and right after create_circle that row has
\* role "creator".
C3_Theorem ==
    /\ \A c \in DOMAIN circles :
           /\ BagCardinality(RowsIn(members, c)) >= 1
           /\ \E m \in DOMAIN members :
                  m.circle_id = c /\ m.user_id = circles[c].admin_user_id
    /\ last.op = "create_circle" =>
           [circle_id |-> last.val[1], user_id |-> last.args[1],
            role |-> "creator"] \in DOMAIN members

\* a circle was created by a user who already had a row for that circle id
C3_Witness ==
    /\ last.op = "create_circle"
    /\ last.args[1] \in DOMAIN users
    /\ BagCardinality(RowsIn(members, last.val[1])) = 2

\* C4 (SpecJourney): for every user the counts get_journey_summary reports
\* are the numbers of successful add_insight and log_practice calls made for
\* that user id; a failed log_practice changes no count, and
\* get_journey_summary changes nothing.
C4_CountsMatch ==
    /\ \A u \in DOMAIN users :
           /\ InsightsCount(u) = okInsights[u]
           /\ PracticesCount(u) = okLogs[u]
    /\ (last.op = "get_journey_summary" /\ last.ok) =>
           /\ last.val[2] = okInsights[last.args[1]]
           /\ last.val[3] = okLogs[last.args[1]]

C4_ReadStep ==
    /\ last'.op = "get_journey_summary" => (store' = store /\ hist' = hist)
    /\ (last'.op = "log_practice" /\ ~last'.ok) => (store' = store /\ hist' = hist)

C4_Theorem == []C4_CountsMatch /\ [][C4_ReadStep]_vars

\* a summary reported one insight and one practice of a user while another
\* user id has an insight too and a circle exists
C4_Witness ==
    /\ last.op = "get_journey_summary"
    /\ last.ok
    /\ last.val[2] = 1
    /\ last.val[3] = 1
    /\ Len(insights) = 2
    /\ circles # <<>>

\* C5 (SpecPractice): a successful log_practice appends exactly one row that
\* holds the call's arguments, consciousness_before and consciousness_after,
\* where after = before + target_level * min(actual / target, 1.5) * 0.1
\* (15, 10, 1.5, 1.0 gives 1.225); it returns that value, and the user's
\* stored level equals it.
C5_Result ==
    (last.op = "log_practice" /\ last.ok) =>
        LET u == last.args[1]
            p == last.args[2]
            a == last.args[3]
            b == last.args[4]
            after == last.val[1]
            t == practices[p].duration_minutes
            tl == practices[p].target_level
        IN t > 0 =>
           /\ 2 * t * (after - b) = tl * 100 * MinOf(2 * a, 3 * t)
           /\ (a = 15 /\ t = 10 /\ tl = 15 /\ b = 10000) => after = 12250
           /\ logs[Len(logs)] = [user_id |-> u, practice_id |-> p,
                                 duration_actual |-> a,
                                 consciousness_before |-> b,
                                 consciousness_after |-> after]
           /\ u \in DOMAIN users => users[u].consciousness_level = after

C5_AppendStep ==
    (last'.op = "log_practice" /\ last'.ok) =>
        /\ Len(logs') = Len(logs) + 1
        /\ SubSeq(logs', 1, Len(logs)) = logs

C5_Theorem == []C5_Result /\ [][C5_AppendStep]_vars

\* the example of the specification: 15 minutes on a 10 minute practice of
\* target level 1.5 from level 1.0, by a registered user
C5_Witness ==
    /\ last.op = "log_practice"
    /\ last.ok
    /\ last.args[1] \in DOMAIN users
    /\ last.args[3] = 15
    /\ last.args[4] = 10000
    /\ practices[last.args[2]] = [target_level |-> 15, duration_minutes |-> 10]
    /\ last.val = <<12250>>

\* C6 (SpecPractice), as claimed: for every stored practice and every
\* duration_actual >= 1.5 * duration_minutes, log_practice returns
\* before + target_level * 0.15.
C6_Claim ==
    (/\ last.op = "log_practice"
     /\ last.args[2] \in DOMAIN practices
     /\ 2 * last.args[3] >= 3 * practices[last.args[2]].duration_minutes)
    => /\ last.ok
       /\ last.val = <<last.args[4] + practices[last.args[2]].target_level * 150>>

\* C7 (SpecPractice): every practice_logs row references a stored practice,
\* and log_practice with an unknown practice id returns nothing (NotFound)
\* and leaves every table as it was.
C7_LogsReferencePractices ==
    \A i \in DOMAIN logs : logs[i].practice_id \in DOMAIN practices

C7_NotFoundStep ==
    (last'.op = "log_practice" /\ last'.args[2] \notin DOMAIN practices)
    => /\ last'.ok = FALSE
       /\ last'.err = "NotFound"
       /\ last'.val = <<>>
       /\ store' = store

C7_Theorem == []C7_LogsReferencePractices /\ [][C7_NotFoundStep]_vars

\* an unknown practice id was refused for a registered user, after a log
C7_Witness ==
    /\ last.op = "log_practice"
    /\ last.err = "NotFound"
    /\ last.args[1] \in DOMAIN users
    /\ logs # <<>>

\* C8 (SpecCli), as claimed: choosing 3, 4 or 5 while no user is
\* authenticated prints the not-authenticated line, writes nothing and
\* returns to the prompt.
C8_Claim ==
    [][(/\ last'.op \in {"cli3", "cli4", "cli5"}
        /\ (~cliUser.bound \/ cliUser.user_id = NoneId))
       => /\ last'.err = "NotAuthenticated"
          /\ store' = store
          /\ cliPc' = "prompt"]_vars

\* C9 (SpecPractice), as claimed: a successful log_practice with positive
\* target level, target duration and actual duration leaves the user's
\* stored level strictly greater than it was.
C9_Claim ==
    [][(/\ last'.op = "log_practice"
        /\ last'.ok
        /\ last'.args[1] \in DOMAIN users
        /\ last'.args[3] > 0
        /\ practices[last'.args[2]].duration_minutes > 0
        /\ practices[last'.args[2]].target_level > 0)
       => users'[last'.args[1]].consciousness_level >
          users[last'.args[1]].consciousness_level]_vars

\* C10 (SpecCircle), as claimed: get_circle_info returns nothing for a
\* missing circle; for a stored one the count is the number of membership
\* rows and the average is the rounded mean of the levels of exactly those
\* rows' users (0 only when there is no row).
C10_Claim ==
    last.op = "get_circle_info" =>
        LET c == last.args[1]
            rows == RowsIn(members, c)
        IN IF c \notin DOMAIN circles THEN ~last.ok /\ last.val = <<>>
           ELSE /\ last.ok
                /\ last.val[1] = BagCardinality(rows)
                /\ DOMAIN rows = {} => last.val[2] = 0
                /\ DOMAIN rows # {} =>
                       /\ \A m \in DOMAIN rows : m.user_id \in DOMAIN users
                       /\ last.val[2] \in Round2(SumLevels(rows), BagCardinality(rows))

====
